---- MODULE Spec2Model ----
(***************************************************************************)
(* Off-chain payment command protocol engine: diem.offchain.client.Client. *)
(* Every public operation is one call: the engine is idle, a call runs to  *)
(* its outcome (a return value or a raised error, together with the log of *)
(* ledger reads and signature checks it made), and the outcome is handed   *)
(* back to the caller.  The ledger is the environment: it changes between  *)
(* calls.  SpecConc runs the operations as coroutines of two flows that    *)
(* are suspended at their awaits while the ledger changes.                 *)
(***************************************************************************)
EXTENDS Integers, Sequences, FiniteSets, TLC

VARIABLES accounts, compliance_keys, currencies, dual_attestation_limit, call, client, flows

vars == <<accounts, compliance_keys, currencies, dual_attestation_limit, call, client, flows>>

(***************************************************************************)
(* Bounds of the model.                                                    *)
(***************************************************************************)
MaxAddr == 2
MaxAmount == 3
MaxLimit == 3
MaxRate == 3
MaxReads == 1
MaxFault == 4

\* on-chain account addresses
Addr == 0..MaxAddr
\* sub-address part of an account identifier: none, or one
SubAddrs == {"none", "sub"}
\* Ed25519 key pairs, named by their public key
Keys == {"K1", "K2"}
\* exchange rates are the rationals n / RateDen
RateDen == 2

(***************************************************************************)
(* Account identifiers (diem.identifier): an encoded string either decodes *)
(* to (address, sub-address) or is rejected with ValueError.               *)
(***************************************************************************)
encode_account(address, subaddress) ==
    [kind |-> "id", addr |-> address, sub |-> subaddress]

GarbageId == [kind |-> "garbage", addr |-> 0, sub |-> "none"]
EmptyId == [kind |-> "empty", addr |-> 0, sub |-> "none"]

DecodableIds == {encode_account(a, s) : a \in Addr, s \in SubAddrs}
AccountIds == DecodableIds \cup {GarbageId}

\* identifier.decode_account: ok = FALSE stands for the ValueError it raises
decode_account(account_id) ==
    [ok |-> account_id.kind = "id", addr |-> account_id.addr, sub |-> account_id.sub]

(***************************************************************************)
(* Outcomes of a call.  log is the sequence of ledger reads and signature  *)
(* verifications the call issued, in order.                                *)
(***************************************************************************)
NoValue == [none |-> TRUE]

Return(v, log) ==
    [kind |-> "return", code |-> "", field |-> "", value |-> v, log |-> log]

Raise(kind, code, field, log) ==
    [kind |-> kind, code |-> code, field |-> field, value |-> NoValue, log |-> log]

protocol_error(code, field, log) == Raise("protocol_error", code, field, log)

command_error(code, field, log) == Raise("command_error", code, field, log)

Event(event, address, key, msg) == [event |-> event, on |-> address, key |-> key, msg |-> msg]

Read(port, address) == Event(port, address, "", NoValue)

HasEvent(log, event) == \E i \in 1..Len(log) : log[i].event = event

\* the reads of the ledger query port in a log
LedgerReads(log) ==
    SelectSeq(log, LAMBDA e : e.event \in
        {"get_account", "get_currencies", "get_metadata", "get_base_url_and_compliance_key"})

\* fail_at = n > 0: the n-th ledger read of the call raises a transport failure
\* of the ledger client (NetworkError, JsonRpcError: not a ValueError)
PortFails(fail_at, log) == Len(LedgerReads(log)) + 1 = fail_at

(***************************************************************************)
(* Client configuration (dataclass fields and __post_init__).              *)
(***************************************************************************)
my_compliance_key_account_address == 0

account_id(address) == encode_account(address, "none")

my_compliance_key_account_id == account_id(my_compliance_key_account_address)

\* the fields of the engine after construction: the three it is given and the
\* account id that __post_init__ derives from the compliance address
post_init(address, hrp, supported_codes) ==
    [my_compliance_key_account_address |-> address,
     hrp |-> hrp,
     supported_currency_codes |-> supported_codes,
     my_compliance_key_account_id |-> account_id(address)]

\* Optional[List[str]]: None, or a list of codes
NoSupportedCodes == [configured |-> FALSE, codes |-> {}]

SupportedCodes(codes) == [configured |-> TRUE, codes |-> codes]

\* self.supported_currency_codes
supported_currency_codes == client.supported_currency_codes

(***************************************************************************)
(* Client.is_my_account_id                                                 *)
(***************************************************************************)
\* takes any account on the ledger for a local one
is_my_account_id_no_parent_check(aid, accts, fail_at, log) ==
    LET d == decode_account(aid) IN
    IF ~d.ok THEN Raise("ValueError", "", "", log)
    ELSE IF my_compliance_key_account_id = account_id(d.addr) THEN Return(TRUE, log)
    ELSE IF PortFails(fail_at, log)
         THEN Raise("NetworkError", "", "", Append(log, Read("get_account", d.addr)))
    ELSE LET log1 == Append(log, Read("get_account", d.addr)) IN
         Return(accts[d.addr].exists, log1)

is_my_account_id(aid, accts, fail_at, log) ==
    LET d == decode_account(aid) IN
    IF ~d.ok THEN Raise("ValueError", "", "", log)
    ELSE IF my_compliance_key_account_id = account_id(d.addr) THEN Return(TRUE, log)
    ELSE IF PortFails(fail_at, log)
         THEN Raise("NetworkError", "", "", Append(log, Read("get_account", d.addr)))
    ELSE LET account == accts[d.addr]
             log1 == Append(log, Read("get_account", d.addr))
         IN IF account.exists /\ account.parent_vasp_address # {}
            THEN Return(\E p \in account.parent_vasp_address :
                            my_compliance_key_account_id = account_id(p), log1)
            ELSE Return(FALSE, log1)

(***************************************************************************)
(* Exception classes: the except clauses of the client catch by class.     *)
(* JSONDecodeError, FieldError and AccountNotFoundError are ValueErrors;   *)
(* InvalidSignature and the ledger client's transport errors are not.      *)
(***************************************************************************)
IsValueError(kind) ==
    kind \in {"ValueError", "JSONDecodeError", "FieldError", "AccountNotFoundError"}

(***************************************************************************)
(* Ed25519: a signature names the key pair that made it and the message it *)
(* was made over; public_key.verify raises InvalidSignature otherwise.     *)
(***************************************************************************)
Signature(key, msg) == [present |-> TRUE, hex |-> TRUE, key |-> key, over |-> msg]

verify(public_key, sig, msg) == sig.key = public_key /\ sig.over = msg

(***************************************************************************)
(* Ledger query port: get_base_url_and_compliance_key of the JSON-RPC      *)
(* client.  Account not found, no compliance key and an invalid key are    *)
(* ValueErrors.                                                            *)
(***************************************************************************)
jsonrpc_get_base_url_and_compliance_key(address, accts, keys, fail_at, log) ==
    LET log1 == Append(log, Read("get_base_url_and_compliance_key", address)) IN
    IF PortFails(fail_at, log) THEN Raise("NetworkError", "", "", log1)
    ELSE IF ~accts[address].exists THEN Raise("AccountNotFoundError", "", "", log1)
    ELSE IF keys[address] \notin Keys THEN Raise("ValueError", "", "", log1)
    ELSE Return(keys[address], log1)

\* Client.get_base_url_and_compliance_key
get_base_url_and_compliance_key(aid, accts, keys, fail_at, log) ==
    LET d == decode_account(aid) IN
    IF ~d.ok THEN Raise("ValueError", "", "", log)
    ELSE jsonrpc_get_base_url_and_compliance_key(d.addr, accts, keys, fail_at, log)

\* Client.get_inbound_request_sender_public_key
\* lets the ValueError through
get_inbound_request_sender_public_key_uncaught(request_sender_address, accts, keys, fail_at, log) ==
    get_base_url_and_compliance_key(request_sender_address, accts, keys, fail_at, log)

get_inbound_request_sender_public_key(request_sender_address, accts, keys, fail_at, log) ==
    LET r == get_base_url_and_compliance_key(request_sender_address, accts, keys, fail_at, log) IN
    IF r.kind # "return" /\ IsValueError(r.kind)
    THEN protocol_error("invalid_http_header", "", r.log)
    ELSE r

(***************************************************************************)
(* Signed envelope (diem.offchain.jws).  An envelope is the three-part     *)
(* compact message: wellformed says it splits into header, payload and     *)
(* signature with the expected header; payload is what the payload part    *)
(* holds now; sig is the signature part.  A payload is JSON text or not,   *)
(* and as JSON it conforms to the target schema or fails with a FieldError.*)
(***************************************************************************)
Payload(syntax, schema, field, object) ==
    [syntax |-> syntax, schema |-> schema, field |-> field, object |-> object]

TextPayload == Payload("text", "ok", "", NoValue)

Object(object) == Payload("json", "ok", "", object)

\* JSON that from_dict rejects with FieldError(code, field)
BadObject(code, field) == Payload("json", code, field, NoValue)

Envelope(wellformed, payload, sig) ==
    [wellformed |-> wellformed, payload |-> payload, sig |-> sig]

\* jws.serialize(obj, sign)
jws_serialize(payload, key) == Envelope(TRUE, payload, Signature(key, payload))

\* jws.deserialize(msg, klass, verify): split, verify, decode JSON, from_dict
jws_deserialize(content, public_key, log) ==
    IF ~content.wellformed THEN Raise("ValueError", "", "", log)
    ELSE LET log1 == Append(log, Event("verify_envelope", 0, public_key, content.payload)) IN
         IF ~verify(public_key, content.sig, content.payload)
           THEN Raise("InvalidSignature", "", "", log1)
         ELSE IF content.payload.syntax # "json"
           THEN Raise("JSONDecodeError", "", "", log1)
         ELSE IF content.payload.schema # "ok"
           THEN Raise("FieldError", content.payload.schema, content.payload.field, log1)
         ELSE Return(content.payload.object, log1)

\* reports a failed signature as a malformed envelope
ExceptDeserializeJws_signature_as_jws(r) ==
    IF r.kind = "JSONDecodeError" THEN protocol_error("invalid_json", "", r.log)
    ELSE IF r.kind = "FieldError" THEN protocol_error(r.code, r.field, r.log)
    ELSE IF r.kind = "InvalidSignature" THEN protocol_error("invalid_jws", "", r.log)
    ELSE IF IsValueError(r.kind) THEN protocol_error("invalid_jws", "", r.log)
    ELSE r

\* _deserialize_jws: the except clauses in their order
ExceptDeserializeJws(r) ==
    IF r.kind = "JSONDecodeError" THEN protocol_error("invalid_json", "", r.log)
    ELSE IF r.kind = "FieldError" THEN protocol_error(r.code, r.field, r.log)
    ELSE IF r.kind = "InvalidSignature" THEN protocol_error("invalid_jws_signature", "", r.log)
    ELSE IF IsValueError(r.kind) THEN protocol_error("invalid_jws", "", r.log)
    ELSE r

deserialize_jws(content_bytes, public_key, log) ==
    ExceptDeserializeJws(jws_deserialize(content_bytes, public_key, log))

(***************************************************************************)
(* Client.deserialize_inbound_request                                      *)
(***************************************************************************)
deserialize_inbound_request(request_sender_address, request_bytes, accts, keys, fail_at) ==
    IF request_sender_address.kind = "empty"
    THEN protocol_error("missing_http_header", "", <<>>)
    ELSE LET k == get_inbound_request_sender_public_key(
                      request_sender_address, accts, keys, fail_at, <<>>) IN
         IF k.kind # "return" THEN k
         ELSE deserialize_jws(request_bytes, k.value, k.log)

(***************************************************************************)
(* Payment objects and PaymentCommand (diem.offchain.payment_command).     *)
(***************************************************************************)
NoSignature == [present |-> FALSE, hex |-> FALSE, key |-> "", over |-> NoValue]

\* a recipient_signature string that bytes.fromhex rejects
NotHexSignature == [present |-> TRUE, hex |-> FALSE, key |-> "", over |-> NoValue]

PaymentObject(sender, sender_status, receiver, receiver_status, amount, currency, sig) ==
    [sender |-> [address |-> sender, status |-> sender_status],
     receiver |-> [address |-> receiver, status |-> receiver_status],
     action |-> [amount |-> amount, currency |-> currency],
     recipient_signature |-> sig]

PaymentCommand(cid, my_actor_address, payment, inbound) ==
    [cid |-> cid, my_actor_address |-> my_actor_address, payment |-> payment,
     inbound |-> inbound]

\* PaymentCommand.is_initial: the sender asks for KYC data, the receiver has not answered
is_initial(cmd) ==
    /\ cmd.payment.sender.status = "needs_kyc_data"
    /\ cmd.payment.receiver.status = "none"

\* PaymentCommand.is_rsend: the receiver answered ready_for_settlement, the sender has not
is_rsend(cmd) ==
    /\ cmd.payment.sender.status = "needs_kyc_data"
    /\ cmd.payment.receiver.status = "ready_for_settlement"

\* PaymentCommand.travel_rule_metadata_signature_message(hrp)
travel_rule_metadata_signature_message(payment) ==
    [sender |-> decode_account(payment.sender.address).addr,
     receiver |-> decode_account(payment.receiver.address).addr,
     amount |-> payment.action.amount]

(***************************************************************************)
(* deserialize_command                                                     *)
(***************************************************************************)
deserialize_command(command, log) ==
    IF command.schema # "ok" THEN command_error(command.schema, command.field, log)
    ELSE Return(command.object, log)

(***************************************************************************)
(* Client.validate_addresses                                               *)
(***************************************************************************)
validate_actor_address(actor_name, actor, log) ==
    IF ~decode_account(actor.address).ok
    THEN command_error("invalid_field_value", actor_name, log)
    ELSE Return(NoValue, log)

\* compares the decoded account addresses, not the identifiers
validate_request_sender_address_by_account(request_sender_address, addresses, log) ==
    IF \A i \in 1..Len(addresses) :
          decode_account(request_sender_address).addr # decode_account(addresses[i]).addr
    THEN command_error("invalid_http_header", "", log)
    ELSE Return(NoValue, log)

validate_request_sender_address(request_sender_address, addresses, log) ==
    IF \A i \in 1..Len(addresses) : request_sender_address # addresses[i]
    THEN command_error("invalid_http_header", "", log)
    ELSE Return(NoValue, log)

validate_addresses(payment, request_sender_address, log) ==
    LET s == validate_actor_address("command.payment.sender.address", payment.sender, log) IN
    IF s.kind # "return" THEN s
    ELSE LET r == validate_actor_address(
                      "command.payment.receiver.address", payment.receiver, log) IN
         IF r.kind # "return" THEN r
         ELSE validate_request_sender_address(
                  request_sender_address,
                  <<payment.sender.address, payment.receiver.address>>, log)

(***************************************************************************)
(* Client.create_inbound_payment_command                                   *)
(***************************************************************************)
\* a variant that asks about the receiver before the sender
create_inbound_payment_command_receiver_first(cid, obj, accts, fail_at, log) ==
    LET r == is_my_account_id(obj.receiver.address, accts, fail_at, log) IN
    IF r.kind # "return" THEN r
    ELSE IF r.value THEN Return(PaymentCommand(cid, obj.receiver.address, obj, TRUE), r.log)
    ELSE LET s == is_my_account_id(obj.sender.address, accts, fail_at, r.log) IN
         IF s.kind # "return" THEN s
         ELSE IF s.value
           THEN Return(PaymentCommand(cid, obj.sender.address, obj, TRUE), s.log)
         ELSE command_error("unknown_address", "", s.log)

create_inbound_payment_command(cid, obj, accts, fail_at, log) ==
    LET s == is_my_account_id(obj.sender.address, accts, fail_at, log) IN
    IF s.kind # "return" THEN s
    ELSE IF s.value THEN Return(PaymentCommand(cid, obj.sender.address, obj, TRUE), s.log)
    ELSE LET r == is_my_account_id(obj.receiver.address, accts, fail_at, s.log) IN
         IF r.kind # "return" THEN r
         ELSE IF r.value
           THEN Return(PaymentCommand(cid, obj.receiver.address, obj, TRUE), r.log)
         ELSE command_error("unknown_address", "", r.log)

(***************************************************************************)
(* Dual attestation limit                                                  *)
(***************************************************************************)
\* math.ceil(n / d) for d > 0
Ceil(n, d) == -((-n) \div d)

\* rate is the exchange rate numerator: the rate is rate / RateDen
\* rounds the exchanged amount down
is_under_the_threshold_floor(limit, rate, amount) == (rate * amount) \div RateDen < limit

is_under_the_threshold(limit, rate, amount) == Ceil(rate * amount, RateDen) < limit

filter_supported_currency_codes(supported_codes, codes) ==
    SelectSeq(codes, LAMBDA code : ~supported_codes.configured \/ code \in supported_codes.codes)

Codes(infos) == [i \in 1..Len(infos) |-> infos[i].code]

InSeq(x, seq) == \E i \in 1..Len(seq) : seq[i] = x

\* Client.validate_currency_code, called with the currency list
\* a variant that asks about the supported codes before the ledger's codes
validate_currency_code_supported_first(currency, infos, log) ==
    LET currency_codes == Codes(infos)
        supported_codes == filter_supported_currency_codes(supported_currency_codes, currency_codes)
    IN IF ~InSeq(currency, supported_codes)
         THEN Raise("UnsupportedCurrencyCodeError", "", "", log)
       ELSE IF ~InSeq(currency, currency_codes)
         THEN Raise("InvalidCurrencyCodeError", "", "", log)
       ELSE Return(NoValue, log)

validate_currency_code(currency, infos, log) ==
    LET currency_codes == Codes(infos)
        supported_codes == filter_supported_currency_codes(supported_currency_codes, currency_codes)
    IN IF ~InSeq(currency, currency_codes) THEN Raise("InvalidCurrencyCodeError", "", "", log)
       ELSE IF ~InSeq(currency, supported_codes)
         THEN Raise("UnsupportedCurrencyCodeError", "", "", log)
       ELSE Return(NoValue, log)

\* Client.is_under_dual_attestation_limit: returns whether a message is returned
is_under_dual_attestation_limit(currency, amount, infos, limit, fail_at, log) ==
    LET log1 == Append(log, Read("get_currencies", 0)) IN
    IF PortFails(fail_at, log) THEN Raise("NetworkError", "", "", log1)
    ELSE LET v == validate_currency_code(currency, infos, log1) IN
         IF v.kind = "InvalidCurrencyCodeError"
           THEN command_error("invalid_field_value", "command.payment.action.currency", log1)
         ELSE IF v.kind = "UnsupportedCurrencyCodeError"
           THEN command_error("unsupported_currency", "command.payment.action.currency", log1)
         ELSE LET log2 == Append(log1, Read("get_metadata", 0)) IN
              IF PortFails(fail_at, log1) THEN Raise("NetworkError", "", "", log2)
              ELSE Return(\E i \in 1..Len(infos) :
                              /\ infos[i].code = currency
                              /\ is_under_the_threshold(
                                     limit, infos[i].to_xdx_exchange_rate, amount),
                          log2)

\* Client.validate_dual_attestation_limit_by_action
validate_dual_attestation_limit_by_action(action, infos, limit, fail_at, log) ==
    LET msg == is_under_dual_attestation_limit(
                   action.currency, action.amount, infos, limit, fail_at, log) IN
    IF msg.kind # "return" THEN msg
    ELSE IF msg.value
      THEN command_error("no_kyc_needed", "command.payment.action.amount", msg.log)
    ELSE Return(NoValue, msg.log)

(***************************************************************************)
(* Client.validate_recipient_signature                                     *)
(***************************************************************************)
\* treats an absent signature as nothing to verify
validate_recipient_signature_skip_absent(cmd, public_key, log) ==
    LET msg == travel_rule_metadata_signature_message(cmd.payment)
        sig == cmd.payment.recipient_signature
        failed == "command.payment.recipient_signature"
    IN IF ~sig.present THEN Return(NoValue, log)
       ELSE IF ~sig.hex THEN command_error("invalid_recipient_signature", failed, log)
       ELSE LET log1 == Append(log, Event("verify_recipient_signature", 0, public_key, msg)) IN
            IF ~verify(public_key, sig, msg)
            THEN command_error("invalid_recipient_signature", failed, log1)
            ELSE Return(NoValue, log1)

validate_recipient_signature(cmd, public_key, log) ==
    LET msg == travel_rule_metadata_signature_message(cmd.payment)
        sig == cmd.payment.recipient_signature
        failed == "command.payment.recipient_signature"
    IN IF ~sig.present THEN command_error("invalid_recipient_signature", failed, log)
       ELSE IF ~sig.hex THEN command_error("invalid_recipient_signature", failed, log)
       ELSE LET log1 == Append(log, Event("verify_recipient_signature", 0, public_key, msg)) IN
            IF ~verify(public_key, sig, msg)
            THEN command_error("invalid_recipient_signature", failed, log1)
            ELSE Return(NoValue, log1)

(***************************************************************************)
(* Client.process_inbound_payment_command_request                          *)
(***************************************************************************)
\* raises the unknown command type as a command error
check_command_type_as_command_error(request, log) ==
    IF request.command_type # "PaymentCommand"
    THEN command_error("unknown_command_type", "command_type", log)
    ELSE Return(NoValue, log)

\* the check of request.command_type
check_command_type(request, log) ==
    IF request.command_type # "PaymentCommand"
    THEN protocol_error("unknown_command_type", "command_type", log)
    ELSE Return(NoValue, log)

\* the branch on the command's state, after the command is created
ValidateByState(cmd, request_sender_address, accts, keys, infos, limit, fail_at, log) ==
    IF is_initial(cmd)
    THEN LET v == validate_dual_attestation_limit_by_action(
                      cmd.payment.action, infos, limit, fail_at, log) IN
         IF v.kind # "return" THEN v ELSE Return(cmd, v.log)
    ELSE IF is_rsend(cmd)
    THEN LET k == get_inbound_request_sender_public_key(
                      request_sender_address, accts, keys, fail_at, log) IN
         IF k.kind # "return" THEN k
         ELSE LET v == validate_recipient_signature(cmd, k.value, k.log) IN
              IF v.kind # "return" THEN v ELSE Return(cmd, v.log)
    ELSE Return(cmd, log)

process_inbound_payment_command_request(request_sender_address, request, accts, keys, infos, limit, fail_at) ==
    LET t == check_command_type(request, <<>>) IN
    IF t.kind # "return" THEN t
    ELSE LET p == deserialize_command(request.command, t.log) IN
         IF p.kind # "return" THEN p
         ELSE LET a == validate_addresses(p.value.payment, request_sender_address, p.log) IN
              IF a.kind # "return" THEN a
              ELSE LET c == create_inbound_payment_command(
                                request.cid, p.value.payment, accts, fail_at, a.log) IN
                   IF c.kind # "return" THEN c
                   ELSE ValidateByState(c.value, request_sender_address,
                                        accts, keys, infos, limit, fail_at, c.log)

(***************************************************************************)
(* CommandRequestObject                                                    *)
(***************************************************************************)
Request(cid, command_type, command) ==
    [cid |-> cid, command_type |-> command_type, command |-> command]

PingRequest(cid) == Request(cid, "PingCommand", Object([_ObjectType |-> "PingCommand"]))

(***************************************************************************)
(* Client.send_request, and the operations that send through it.           *)
(* The remote party answers the POST with an HTTP status and a body.       *)
(***************************************************************************)
HttpResponse(status, body) == [status |-> status, body |-> body]

\* aiohttp ClientResponse.raise_for_status: raises ClientResponseError when
\* the status is 400 or above, and returns otherwise
raise_for_status(status) == status >= 400

CommandResponseObject(cid, status) == [cid |-> cid, status |-> status]

send_request(request_sender_address, counterparty_account_id, request_bytes, response, accts, keys, fail_at) ==
    LET k == get_base_url_and_compliance_key(counterparty_account_id, accts, keys, fail_at, <<>>) IN
    IF k.kind # "return" THEN k
    ELSE LET log1 == Append(k.log, Event("http_post", decode_account(counterparty_account_id).addr,
                                         "", request_bytes.payload)) IN
         IF response.status \notin {200, 400} /\ raise_for_status(response.status)
         THEN Raise("ClientResponseError", "", "", log1)
         ELSE LET cmd_resp == deserialize_jws(response.body, k.value, log1) IN
              IF cmd_resp.kind # "return" THEN cmd_resp
              ELSE IF cmd_resp.value.status = "failure"
                THEN [Raise("CommandResponseError", "", "", cmd_resp.log)
                        EXCEPT !.value = cmd_resp.value]
              ELSE cmd_resp

\* Client.ping
ping(counterparty_account_identifier, sign, cid, response, accts, keys, fail_at) ==
    send_request(my_compliance_key_account_id, counterparty_account_identifier,
                 jws_serialize(Object(PingRequest(cid)), sign), response, accts, keys, fail_at)

\* Client.ref_id_exchange_request
ref_id_exchange_request(sender, sender_address, receiver, reference_id, counterparty_account_identifier, sign, cid, response, accts, keys, fail_at) ==
    send_request(my_compliance_key_account_id, counterparty_account_identifier,
                 jws_serialize(Object(Request(cid, "ReferenceIDCommand",
                     Object([_ObjectType |-> "ReferenceIDCommand", sender |-> sender,
                             sender_address |-> sender_address, receiver |-> receiver,
                             reference_id |-> reference_id]))), sign),
                 response, accts, keys, fail_at)

\* Command.my_address, Command.counterparty_address, Command.new_request
my_address(command) == command.my_actor_address

counterparty_address(command) ==
    IF command.my_actor_address = command.payment.sender.address
    THEN command.payment.receiver.address
    ELSE command.payment.sender.address

new_request(command) ==
    Request(command.cid, "PaymentCommand",
            Object([_ObjectType |-> "PaymentCommand", payment |-> command.payment]))

\* Client.send_command
send_command(command, sign, response, accts, keys, fail_at) ==
    send_request(my_address(command), counterparty_address(command),
                 jws_serialize(Object(new_request(command)), sign),
                 response, accts, keys, fail_at)

(***************************************************************************)
(* The ledger.                                                             *)
(***************************************************************************)
AccountRecords ==
    {[exists |-> FALSE, parent_vasp_address |-> {}]}
    \cup {[exists |-> TRUE, parent_vasp_address |-> ps] :
            ps \in {{}} \cup {{p} : p \in Addr}}

KeyRecords == Keys \cup {"NoKey", "BadKey"}

Rates == 1..MaxRate

Idle == [op |-> "idle"]

\* the logical command flows that invoke the engine concurrently
Flows == {"a", "b"}

\* what a coroutine holds of the ledger before any of its reads was answered
EmptyView ==
    [accounts |-> [a \in Addr |-> [exists |-> FALSE, parent_vasp_address |-> {}]],
     compliance_keys |-> [a \in Addr |-> "NoKey"],
     currencies |-> <<>>,
     dual_attestation_limit |-> 0]

NoOutcome == Raise("pending", "", "", <<>>)

\* a flow with no invocation in flight
IdleFlow ==
    [op |-> "idle", args |-> NoValue, pc |-> "idle", reads |-> 0,
     view |-> EmptyView, seen |-> <<>>, out |-> NoOutcome]

Init ==
    /\ accounts = [a \in Addr |->
          IF a = my_compliance_key_account_address
            THEN [exists |-> TRUE, parent_vasp_address |-> {}]
          ELSE IF a = 1
            THEN [exists |-> TRUE, parent_vasp_address |-> {my_compliance_key_account_address}]
          ELSE [exists |-> TRUE, parent_vasp_address |-> {}]]
    /\ compliance_keys = [a \in Addr |->
          IF a = my_compliance_key_account_address THEN "K1"
          ELSE IF a = 1 THEN "NoKey" ELSE "K2"]
    /\ currencies = <<[code |-> "XUS", to_xdx_exchange_rate |-> RateDen],
                      [code |-> "XDX", to_xdx_exchange_rate |-> RateDen]>>
    /\ dual_attestation_limit = 2
    /\ call = Idle
    /\ client \in {post_init(my_compliance_key_account_address, "tdm", sc) :
                      sc \in {NoSupportedCodes, SupportedCodes({"XUS", "EUR"})}}
    /\ flows = [i \in Flows |-> IdleFlow]

\* the ledger changes the record of an account among addrs
SetAccount(addrs) ==
    /\ call = Idle
    /\ \E a \in addrs, r \in AccountRecords :
          accounts' = [accounts EXCEPT ![a] = r]
    /\ UNCHANGED <<compliance_keys, currencies, dual_attestation_limit, call, client, flows>>

\* an account among addrs rotates, drops or corrupts its compliance key
SetKey(addrs) ==
    /\ call = Idle
    /\ \E a \in addrs, k \in KeyRecords :
          compliance_keys' = [compliance_keys EXCEPT ![a] = k]
    /\ UNCHANGED <<accounts, currencies, dual_attestation_limit, call, client, flows>>

\* the outcome is handed to the caller; the engine keeps nothing of it
Done ==
    /\ call # Idle
    /\ call' = Idle
    /\ UNCHANGED <<accounts, compliance_keys, currencies, dual_attestation_limit, client, flows>>

CallIsMyAccountId ==
    /\ call = Idle
    /\ \E aid \in AccountIds, fail_at \in 0..MaxReads :
          call' = [op |-> "is_my_account_id", account_id |-> aid, fail_at |-> fail_at,
                   out |-> is_my_account_id(aid, accounts, fail_at, <<>>)]
    /\ UNCHANGED <<accounts, compliance_keys, currencies, dual_attestation_limit, client, flows>>

NextOwn == SetAccount(Addr \ {my_compliance_key_account_address}) \/ CallIsMyAccountId \/ Done

SpecOwn == Init /\ [][NextOwn]_vars

(***************************************************************************)
(* Inbound envelopes: deserialize_inbound_request.                         *)
(***************************************************************************)
\* what the payload part of an inbound envelope may hold
DeserPayloads ==
    {TextPayload, BadObject("missing_field", "cid")}
    \cup {Object(PingRequest(cid)) : cid \in {"c1", "c2"}}

\* an envelope that does not split, and every signed (and possibly altered) one
DeserEnvelopes ==
    {Envelope(FALSE, TextPayload, Signature("K1", TextPayload))}
    \cup {Envelope(TRUE, p, Signature(k, q)) :
            p \in DeserPayloads, q \in DeserPayloads, k \in Keys}

\* the account whose ledger record changes while envelopes arrive
Counterparties == {MaxAddr}

CallDeserializeInboundRequest(senders, envelopes) ==
    /\ call = Idle
    /\ \E sender \in senders, bytes \in envelopes, fail_at \in 0..MaxReads :
          call' = [op |-> "deserialize_inbound_request",
                   request_sender_address |-> sender, request_bytes |-> bytes,
                   fail_at |-> fail_at,
                   out |-> deserialize_inbound_request(
                              sender, bytes, accounts, compliance_keys, fail_at)]
    /\ UNCHANGED <<accounts, compliance_keys, currencies, dual_attestation_limit, client, flows>>

NextDeser ==
    \/ SetAccount(Counterparties)
    \/ SetKey(Counterparties)
    \/ CallDeserializeInboundRequest(AccountIds \cup {EmptyId}, DeserEnvelopes)
    \/ Done

SpecDeser == Init /\ [][NextDeser]_vars

(***************************************************************************)
(* Inbound payment commands: process_inbound_payment_command_request.      *)
(***************************************************************************)
PaymentRequest(cid, payment) ==
    Request(cid, "PaymentCommand", Object([_ObjectType |-> "PaymentCommand", payment |-> payment]))

\* a recipient signature made over the payment's message or, with tampered,
\* over the message of another amount
RecipientSignatures(payment, keys, tampered) ==
    {NoSignature, NotHexSignature}
    \cup {Signature(k, travel_rule_metadata_signature_message(payment)) : k \in keys}
    \cup {Signature(k, travel_rule_metadata_signature_message(
              [payment EXCEPT !.action.amount = @ + 1])) : k \in tampered}

WithSignature(payment, sig) == [payment EXCEPT !.recipient_signature = sig]

Payments(ids, sender_statuses, receiver_statuses, amounts, codes, keys, tampered) ==
    UNION {
      {WithSignature(p, sig) : sig \in RecipientSignatures(p, keys, tampered)} :
        p \in {PaymentObject(s, ss, r, rs, amount, code, NoSignature) :
                 s \in ids, ss \in sender_statuses, r \in ids, rs \in receiver_statuses,
                 amount \in amounts, code \in codes}}

CallProcessInboundPaymentCommandRequest(senders, requests, faults) ==
    /\ call = Idle
    /\ \E sender \in senders, request \in requests, fail_at \in faults :
          call' = [op |-> "process_inbound_payment_command_request",
                   request_sender_address |-> sender, request |-> request,
                   fail_at |-> fail_at,
                   out |-> process_inbound_payment_command_request(
                              sender, request, accounts, compliance_keys,
                              currencies, dual_attestation_limit, fail_at)]
    /\ UNCHANGED <<accounts, compliance_keys, currencies, dual_attestation_limit, client, flows>>

\* account identifiers of inbound payments: every address, the local address
\* with a sub-address, and an undecodable string
InboundIds ==
    {account_id(a) : a \in Addr}
    \cup {encode_account(my_compliance_key_account_address, "sub"), GarbageId}

CurrencyCodes == {"XUS", "XDX", "EUR"}

InboundRequests ==
    {PingRequest("c1"),
     Request("c1", "PaymentCommand", BadObject("missing_field", "command.payment"))}
    \cup {PaymentRequest("c1", p) :
            p \in Payments(InboundIds, {"needs_kyc_data", "ready_for_settlement"},
                           {"none", "ready_for_settlement"}, {0, MaxAmount},
                           CurrencyCodes, Keys, {"K2"})}

NextInbound ==
    \/ SetKey(Counterparties)
    \/ CallProcessInboundPaymentCommandRequest(InboundIds, InboundRequests, {0, 1})
    \/ CallDeserializeInboundRequest({EmptyId, GarbageId, account_id(MaxAddr)}, DeserEnvelopes)
    \/ Done

SpecInbound == Init /\ [][NextInbound]_vars

(***************************************************************************)
(* The dual attestation limit against a live ledger: the limit and the     *)
(* exchange rates change while initial payment commands arrive.            *)
(***************************************************************************)
SetLimit ==
    /\ call = Idle
    /\ \E limit \in 1..MaxLimit : dual_attestation_limit' = limit
    /\ UNCHANGED <<accounts, compliance_keys, currencies, call, client, flows>>

SetRate ==
    /\ call = Idle
    /\ \E i \in 1..Len(currencies), rate \in Rates :
          currencies' = [currencies EXCEPT ![i].to_xdx_exchange_rate = rate]
    /\ UNCHANGED <<accounts, compliance_keys, dual_attestation_limit, call, client, flows>>

ThresholdRequests ==
    {PaymentRequest("c1", p) :
        p \in Payments({account_id(my_compliance_key_account_address), account_id(MaxAddr)},
                       {"needs_kyc_data"}, {"none", "ready_for_settlement"},
                       0..MaxAmount, CurrencyCodes \cup {"GBP"}, {}, {})}

NextThreshold ==
    \/ SetLimit
    \/ SetRate
    \/ CallProcessInboundPaymentCommandRequest(
           {account_id(MaxAddr)}, ThresholdRequests, 0..MaxFault)
    \/ Done

SpecThreshold == Init /\ [][NextThreshold]_vars

(***************************************************************************)
(* Outbound requests: ping, ref_id_exchange_request, send_command.         *)
(***************************************************************************)
HttpStatuses == {200, 201, 204, 400, 404, 500}

ResponsePayloads ==
    {TextPayload, BadObject("missing_field", "status")}
    \cup {Object(CommandResponseObject("c1", st)) : st \in {"success", "failure"}}

ResponseEnvelopes ==
    {Envelope(FALSE, TextPayload, Signature("K1", TextPayload))}
    \cup {Envelope(TRUE, p, Signature(k, q)) :
            p \in ResponsePayloads, q \in ResponsePayloads, k \in Keys}

HttpResponses == {HttpResponse(st, b) : st \in HttpStatuses, b \in ResponseEnvelopes}

OutboundCommands ==
    {PaymentCommand("c1", account_id(my_compliance_key_account_address),
                    PaymentObject(account_id(my_compliance_key_account_address),
                                  "needs_kyc_data", r, "none", MaxAmount, "XUS", NoSignature),
                    FALSE) : r \in {account_id(MaxAddr), GarbageId}}

Sent(op, counterparty, response, fail_at, out) ==
    [op |-> op, counterparty |-> counterparty, response |-> response,
     fail_at |-> fail_at, out |-> out]

CallPing ==
    /\ call = Idle
    /\ \E cp \in {account_id(MaxAddr), GarbageId}, response \in HttpResponses,
          fail_at \in {0, 1} :
          call' = Sent("ping", cp, response, fail_at,
                       ping(cp, "K1", "c1", response, accounts, compliance_keys, fail_at))
    /\ UNCHANGED <<accounts, compliance_keys, currencies, dual_attestation_limit, client, flows>>

CallRefIdExchangeRequest ==
    /\ call = Idle
    /\ \E cp \in {account_id(MaxAddr), GarbageId}, response \in HttpResponses,
          fail_at \in {0, 1} :
          call' = Sent("ref_id_exchange_request", cp, response, fail_at,
                       ref_id_exchange_request("alice", my_compliance_key_account_id, "bob",
                           "ref1", cp, "K1", "c1", response, accounts, compliance_keys, fail_at))
    /\ UNCHANGED <<accounts, compliance_keys, currencies, dual_attestation_limit, client, flows>>

CallSendCommand ==
    /\ call = Idle
    /\ \E command \in OutboundCommands, response \in HttpResponses, fail_at \in {0, 1} :
          call' = Sent("send_command", counterparty_address(command), response, fail_at,
                       send_command(command, "K1", response, accounts, compliance_keys, fail_at))
    /\ UNCHANGED <<accounts, compliance_keys, currencies, dual_attestation_limit, client, flows>>

NextSend ==
    \/ SetAccount(Counterparties)
    \/ SetKey(Counterparties)
    \/ CallPing
    \/ CallRefIdExchangeRequest
    \/ CallSendCommand
    \/ Done

SpecSend == Init /\ [][NextSend]_vars

(***************************************************************************)
(* Building the command of an inbound payment:                             *)
(* create_inbound_payment_command, while accounts change on the ledger.    *)
(***************************************************************************)
\* payments whose actor addresses are any two inbound ids, in the initial state
CreatePayments ==
    {PaymentObject(s, "needs_kyc_data", r, "none", MaxAmount, "XUS", NoSignature) :
        s \in InboundIds, r \in InboundIds}

CallCreateInboundPaymentCommand ==
    /\ call = Idle
    /\ \E cid \in {"c1", "c2"}, obj \in CreatePayments, fail_at \in 0..(MaxReads + 1) :
          call' = [op |-> "create_inbound_payment_command", cid |-> cid,
                   payment |-> obj, fail_at |-> fail_at,
                   out |-> create_inbound_payment_command(cid, obj, accounts, fail_at, <<>>)]
    /\ UNCHANGED <<accounts, compliance_keys, currencies, dual_attestation_limit, client, flows>>

NextCreate ==
    \/ SetAccount(Addr \ {my_compliance_key_account_address})
    \/ CallCreateInboundPaymentCommand
    \/ Done

SpecCreate == Init /\ [][NextCreate]_vars

(***************************************************************************)
(* Concurrent invocations.  Every public operation is a coroutine: it runs *)
(* without interruption up to an await of the ledger query port or of the  *)
(* HTTP POST, is suspended there while other flows and the ledger move,    *)
(* and goes on when the answer arrives.  Across a suspension it holds its  *)
(* arguments and, in its local variables, the answers it was given so far  *)
(* (view); seen is the history of what the port answered.                  *)
(***************************************************************************)
\* the exchange rate of a listed currency among codes changes to one of rates
SetRateOf(codes, rates) ==
    /\ call = Idle
    /\ \E i \in 1..Len(currencies), rate \in rates :
          /\ currencies[i].code \in codes
          /\ currencies' = [currencies EXCEPT ![i].to_xdx_exchange_rate = rate]
    /\ UNCHANGED <<accounts, compliance_keys, dual_attestation_limit, call, client, flows>>

\* the operation of a flow, run up to and not including its fail_at-th ledger
\* read (fail_at = 0: to its end), every earlier read answered from view
Run(f, view, fail_at) ==
    CASE f.op = "ping" ->
           ping(f.args.counterparty, "K1", "c1", f.args.response,
                view.accounts, view.compliance_keys, fail_at)
      [] f.op = "ref_id_exchange_request" ->
           ref_id_exchange_request("alice", my_compliance_key_account_id, "bob", "ref1",
               f.args.counterparty, "K1", "c1", f.args.response,
               view.accounts, view.compliance_keys, fail_at)
      [] f.op = "send_command" ->
           send_command(f.args.command, "K1", f.args.response,
                        view.accounts, view.compliance_keys, fail_at)
      [] f.op = "deserialize_inbound_request" ->
           deserialize_inbound_request(f.args.request_sender_address, f.args.request_bytes,
                                       view.accounts, view.compliance_keys, fail_at)
      [] f.op = "process_inbound_payment_command_request" ->
           process_inbound_payment_command_request(
               f.args.request_sender_address, f.args.request, view.accounts,
               view.compliance_keys, view.currencies, view.dual_attestation_limit, fail_at)

\* the ledger read at which the flow is suspended next, if there is one
NextRead(f) ==
    LET probe == Run(f, f.view, f.reads + 1)
        reads == LedgerReads(probe.log)
    IN IF probe.kind = "NetworkError" /\ Len(reads) = f.reads + 1
         THEN [pending |-> TRUE, read |-> reads[Len(reads)]]
       ELSE [pending |-> FALSE, read |-> Read("none", 0)]

\* what the ledger query port answers to a read
Response(read, accts, keys, infos, limit) ==
    [read |-> read,
     account |-> IF read.event \in {"get_account", "get_base_url_and_compliance_key"}
                   THEN accts[read.on] ELSE EmptyView.accounts[0],
     key |-> IF read.event = "get_base_url_and_compliance_key"
               THEN keys[read.on] ELSE "NoKey",
     infos |-> IF read.event = "get_currencies" THEN infos ELSE <<>>,
     limit |-> IF read.event = "get_metadata" THEN limit ELSE 0]

\* a variant that goes on with the limit it held before the await of get_metadata
Await_limit_kept(view, read, accts, keys, infos, limit) ==
    CASE read.event = "get_account" ->
           [view EXCEPT !.accounts[read.on] = accts[read.on]]
      [] read.event = "get_base_url_and_compliance_key" ->
           [view EXCEPT !.accounts[read.on] = accts[read.on],
                        !.compliance_keys[read.on] = keys[read.on]]
      [] read.event = "get_currencies" -> [view EXCEPT !.currencies = infos]
      [] read.event = "get_metadata" -> view

\* the local variables of the coroutine after the await of a read returned
Await(view, read, accts, keys, infos, limit) ==
    CASE read.event = "get_account" ->
           [view EXCEPT !.accounts[read.on] = accts[read.on]]
      [] read.event = "get_base_url_and_compliance_key" ->
           [view EXCEPT !.accounts[read.on] = accts[read.on],
                        !.compliance_keys[read.on] = keys[read.on]]
      [] read.event = "get_currencies" -> [view EXCEPT !.currencies = infos]
      [] read.event = "get_metadata" -> [view EXCEPT !.dual_attestation_limit = limit]

\* the coroutine runs on to its next suspension point or to its end
Advance(f) ==
    IF NextRead(f).pending THEN [f EXCEPT !.pc = "ledger"]
    ELSE IF f.pc # "http" /\ HasEvent(Run(f, f.view, 0).log, "http_post")
      THEN [f EXCEPT !.pc = "http"]
    ELSE [f EXCEPT !.pc = "done", !.out = Run(f, f.view, 0)]

\* the invocations of the flows
\* the counterparty's answer to a POST: a signed success response under a status
ConcResponse(status) ==
    HttpResponse(status, jws_serialize(Object(CommandResponseObject("c1", "success")), "K2"))

ConcPayments ==
    {WithSignature(p, Signature("K2", travel_rule_metadata_signature_message(p))) :
        p \in {PaymentObject(account_id(MaxAddr), "needs_kyc_data",
                             my_compliance_key_account_id, rs, MaxAmount - 1, "XUS",
                             NoSignature) : rs \in {"none", "ready_for_settlement"}}}

ConcCalls ==
    {[op |-> "ping",
      args |-> [counterparty |-> account_id(MaxAddr), response |-> ConcResponse(200)]],
     [op |-> "ref_id_exchange_request",
      args |-> [counterparty |-> account_id(MaxAddr), response |-> ConcResponse(500)]]}
    \cup {[op |-> "send_command", args |-> [command |-> c, response |-> ConcResponse(200)]] :
            c \in {c \in OutboundCommands : counterparty_address(c) = account_id(MaxAddr)}}
    \cup {[op |-> "deserialize_inbound_request",
           args |-> [request_sender_address |-> account_id(MaxAddr),
                     request_bytes |-> jws_serialize(Object(PingRequest("c1")), "K2")]]}
    \cup {[op |-> "process_inbound_payment_command_request",
           args |-> [request_sender_address |-> account_id(MaxAddr),
                     request |-> PaymentRequest("c1", p)]] : p \in ConcPayments}

\* the first flow invokes every operation; the other one, running beside it,
\* sends pings and processes inbound payment commands
FlowCalls(i) ==
    IF i = "a" THEN ConcCalls
    ELSE {c \in ConcCalls : c.op \in {"ping", "process_inbound_payment_command_request"}}

\* a flow invokes an operation, which runs to its first suspension point
Start(i) ==
    /\ flows[i].pc = "idle"
    /\ \E c \in FlowCalls(i) :
          flows' = [flows EXCEPT ![i] =
                      Advance([IdleFlow EXCEPT !.op = c.op, !.args = c.args])]
    /\ UNCHANGED <<accounts, compliance_keys, currencies, dual_attestation_limit, call, client>>

\* the ledger answers the read a flow is suspended at, and the flow runs on
Resume(i) ==
    /\ flows[i].pc = "ledger"
    /\ LET f == flows[i]
           read == NextRead(f).read
       IN flows' = [flows EXCEPT ![i] = Advance(
             [f EXCEPT !.reads = @ + 1,
                       !.view = Await(@, read, accounts, compliance_keys,
                                      currencies, dual_attestation_limit),
                       !.seen = Append(@, Response(read, accounts, compliance_keys,
                                                   currencies, dual_attestation_limit))])]
    /\ UNCHANGED <<accounts, compliance_keys, currencies, dual_attestation_limit, call, client>>

\* the counterparty answers the POST a flow is suspended at, and the flow runs on
HttpResponds(i) ==
    /\ flows[i].pc = "http"
    /\ flows' = [flows EXCEPT ![i] = Advance(@)]
    /\ UNCHANGED <<accounts, compliance_keys, currencies, dual_attestation_limit, call, client>>

\* the outcome is handed to the flow; the engine keeps nothing of it
Finish(i) ==
    /\ flows[i].pc = "done"
    /\ flows' = [flows EXCEPT ![i] = IdleFlow]
    /\ UNCHANGED <<accounts, compliance_keys, currencies, dual_attestation_limit, call, client>>

NextConc ==
    \/ SetKey(Counterparties)
    \/ SetLimit
    \/ SetRateOf({"XUS"}, {1, MaxRate})
    \/ \E i \in Flows : Start(i)
    \/ \E i \in Flows : Resume(i)
    \/ \E i \in Flows : HttpResponds(i)
    \/ \E i \in Flows : Finish(i)

SpecConc == Init /\ [][NextConc]_vars

(***************************************************************************)
(* Properties.                                                             *)
(***************************************************************************)
IsProcess == call.op = "process_inbound_payment_command_request"

IsDeserialize == call.op = "deserialize_inbound_request"

IsIsMyAccountId == call.op = "is_my_account_id"

\* the call's request carries a payload that decodes into a payment
CarriesPayment ==
    /\ IsProcess
    /\ call.request.command_type = "PaymentCommand"
    /\ call.request.command.schema = "ok"

ThePayment == call.request.command.object.payment

BothAddressesDecode ==
    /\ decode_account(ThePayment.sender.address).ok
    /\ decode_account(ThePayment.receiver.address).ok

\* the ledger relation of ownership: the local compliance address itself, or an
\* account whose record declares it as parent VASP
OwnedByLocal(address) ==
    \/ address = my_compliance_key_account_address
    \/ /\ accounts[address].exists
       /\ accounts[address].parent_vasp_address = {my_compliance_key_account_address}

\* the call got as far as a PaymentCommand: the payload and both addresses
\* decode, the claimed sender is one of the actors, one actor is local and no
\* ledger read failed on the way
CommandCreated ==
    /\ CarriesPayment
    /\ BothAddressesDecode
    /\ call.request_sender_address \in
          {ThePayment.sender.address, ThePayment.receiver.address}
    /\ \/ OwnedByLocal(ThePayment.sender.address.addr)
       \/ OwnedByLocal(ThePayment.receiver.address.addr)
    /\ ~(call.out.kind = "NetworkError" /\ call.out.log[Len(call.out.log)].event = "get_account")

\* C10: is_my_account_id returns true for an id of the local compliance address
\* without any ledger read, true after exactly one get_account read for an
\* account whose record declares the local address as parent, and false (after
\* that one read) for every other decodable id, whatever its sub-address
C10_OwnershipResolution ==
    (IsIsMyAccountId /\ decode_account(call.account_id).ok) =>
        LET a == call.account_id.addr
            one == <<Read("get_account", a)>>
        IN IF a = my_compliance_key_account_address
             THEN call.out = Return(TRUE, <<>>)
           ELSE IF call.fail_at = 1
             THEN call.out.kind = "NetworkError"
           ELSE IF accounts[a].exists
                   /\ accounts[a].parent_vasp_address = {my_compliance_key_account_address}
             THEN call.out = Return(TRUE, one)
           ELSE call.out = Return(FALSE, one)

\* a child account of the local VASP, named with a sub-address, resolves after one read
C10_Witness ==
    /\ IsIsMyAccountId
    /\ call.account_id.kind = "id"
    /\ call.account_id.sub = "sub"
    /\ call.account_id.addr # my_compliance_key_account_address
    /\ call.out.kind = "return"
    /\ call.out.value = TRUE
    /\ Len(call.out.log) = 1

\* C1: a claimed sender address equal to neither actor address is rejected with
\* command error invalid_http_header before any ledger read or signature check
C1_ForgedSenderRejectedFirst ==
    (/\ CarriesPayment
     /\ BothAddressesDecode
     /\ call.request_sender_address # ThePayment.sender.address
     /\ call.request_sender_address # ThePayment.receiver.address)
    => /\ call.out.kind = "command_error"
       /\ call.out.code = "invalid_http_header"
       /\ call.out.log = <<>>

\* a forged header naming the local address with a sub-address, on a payment
\* whose recipient signature is valid
C1_Witness ==
    /\ CarriesPayment
    /\ ThePayment.sender.address = my_compliance_key_account_id
    /\ ThePayment.receiver.address = account_id(MaxAddr)
    /\ call.request_sender_address = encode_account(my_compliance_key_account_address, "sub")
    /\ ThePayment.recipient_signature =
          Signature("K2", travel_rule_metadata_signature_message(ThePayment))
    /\ call.out.code = "invalid_http_header"

\* the exchange rate the ledger lists for a currency code
RateOf(code) ==
    LET i == CHOOSE i \in 1..Len(currencies) : currencies[i].code = code
    IN currencies[i].to_xdx_exchange_rate

LedgerKnown(code) == \E i \in 1..Len(currencies) : currencies[i].code = code

\* the code passes the engine's configured list of supported currencies
Supported(code) ==
    ~supported_currency_codes.configured \/ code \in supported_currency_codes.codes

\* C2: an initial command in a ledger-known, supported currency is rejected with
\* no_kyc_needed at command.payment.action.amount iff ceil(rate * amount) < limit,
\* and is returned with inbound = true otherwise, equality included
C2_ThresholdIffCeilBelowLimit ==
    (/\ CommandCreated
     /\ call.out.kind # "NetworkError"
     /\ ThePayment.sender.status = "needs_kyc_data"
     /\ ThePayment.receiver.status = "none"
     /\ LedgerKnown(ThePayment.action.currency)
     /\ Supported(ThePayment.action.currency))
    => LET under == Ceil(RateOf(ThePayment.action.currency) * ThePayment.action.amount,
                         RateDen) < dual_attestation_limit
       IN IF under
          THEN /\ call.out.kind = "command_error"
               /\ call.out.code = "no_kyc_needed"
               /\ call.out.field = "command.payment.action.amount"
          ELSE /\ call.out.kind = "return"
               /\ call.out.value.inbound = TRUE
               /\ call.out.value.payment = ThePayment

\* a fractional exchanged amount whose ceiling equals the limit is accepted
C2_Witness ==
    /\ CommandCreated
    /\ ThePayment.sender.status = "needs_kyc_data"
    /\ ThePayment.receiver.status = "none"
    /\ LedgerKnown(ThePayment.action.currency)
    /\ (RateOf(ThePayment.action.currency) * ThePayment.action.amount) % RateDen # 0
    /\ Ceil(RateOf(ThePayment.action.currency) * ThePayment.action.amount, RateDen)
          = dual_attestation_limit
    /\ call.out.kind = "return"
    /\ call.out.value.inbound = TRUE

\* the public key the ledger holds for the claimed sender of the call
SenderResolves ==
    /\ decode_account(call.request_sender_address).ok
    /\ accounts[call.request_sender_address.addr].exists
    /\ compliance_keys[call.request_sender_address.addr] \in Keys

SenderKey == compliance_keys[call.request_sender_address.addr]

\* the log holds a verification of sig over msg that succeeded under some key
VerifiedRecipientSignature(log, sig, msg) ==
    \E i \in 1..Len(log) :
        /\ log[i].event = "verify_recipient_signature"
        /\ log[i].msg = msg
        /\ sig.hex
        /\ verify(log[i].key, sig, msg)

\* C3: a returned PaymentCommand whose recipient_signature is present had that
\* signature verified during the call, whatever state the command is in
C3_SignatureNeverUnverified ==
    (IsProcess /\ call.out.kind = "return"
        /\ call.out.value.payment.recipient_signature.present)
    => VerifiedRecipientSignature(call.out.log,
            call.out.value.payment.recipient_signature,
            travel_rule_metadata_signature_message(call.out.value.payment))

IsSend == call.op \in {"ping", "ref_id_exchange_request", "send_command"}

\* C4: a 200 or 400 response is verified with the key resolved before the POST
\* and returned on success or raised as CommandResponseError on failure; any
\* other HTTP status raises a transport failure and its body is never
\* deserialized or returned
C4_HttpStatusContract ==
    (IsSend /\ HasEvent(call.out.log, "http_post")) =>
        LET log == call.out.log
            key == compliance_keys[call.counterparty.addr]
            body == call.response.body
        IN IF call.response.status \in {200, 400}
           THEN /\ log[1] = Read("get_base_url_and_compliance_key", call.counterparty.addr)
                /\ log[2].event = "http_post"
                /\ (call.out.kind \in {"return", "CommandResponseError"}
                      => /\ log[3] = Event("verify_envelope", 0, key, body.payload)
                         /\ verify(key, body.sig, body.payload)
                         /\ call.out.value = body.payload.object
                         /\ (call.out.kind = "return") = (call.out.value.status = "success"))
                /\ (body.wellformed /\ verify(key, body.sig, body.payload)
                      /\ body.payload.syntax = "json" /\ body.payload.schema = "ok"
                      => call.out.kind \in {"return", "CommandResponseError"})
           ELSE /\ call.out.kind = "ClientResponseError"
                /\ ~HasEvent(log, "verify_envelope")

\* whether an account id resolves to the local party under is_my_account_id
ResolvesLocal(aid) == is_my_account_id(aid, accounts, 0, <<>>).value = TRUE

\* C5: every returned PaymentCommand has exactly one actor address that
\* resolves to the local party
C5_ExactlyOneLocalActor ==
    (IsProcess /\ call.out.kind = "return") =>
        (ResolvesLocal(call.out.value.payment.sender.address)
            # ResolvesLocal(call.out.value.payment.receiver.address))

ProtocolErrorCodes ==
    {"missing_http_header", "invalid_http_header", "unknown_command_type",
     "invalid_json", "invalid_jws", "invalid_jws_signature"}

CommandErrorCodes ==
    {"invalid_field_value", "unsupported_currency", "no_kyc_needed",
     "invalid_recipient_signature", "unknown_address", "invalid_http_header"}

\* C6 as stated: every protocol error of the two inbound operations and every
\* command error of process_inbound_payment_command_request has a code of the
\* closed sets
C6_ClosedErrorCodes ==
    /\ (IsProcess \/ IsDeserialize) /\ call.out.kind = "protocol_error"
          => call.out.code \in ProtocolErrorCodes
    /\ IsProcess /\ call.out.kind = "command_error"
          => call.out.code \in CommandErrorCodes

\* C6 amended: a code outside the closed sets is the code of the FieldError
\* with which the verified payload (protocol error) or the command payload
\* (command error) fails its schema, passed on with its field path
C6_ErrorCodesClosedUpToFieldErrors ==
    /\ (IsProcess \/ IsDeserialize) /\ call.out.kind = "protocol_error"
          => \/ call.out.code \in ProtocolErrorCodes
             \/ /\ IsDeserialize
                /\ call.request_bytes.payload.schema = call.out.code
                /\ call.request_bytes.payload.field = call.out.field
    /\ IsProcess /\ call.out.kind = "command_error"
          => \/ call.out.code \in CommandErrorCodes
             \/ /\ call.request.command.schema = call.out.code
                /\ call.request.command.field = call.out.field

\* a verified envelope whose payload lacks a field, and a command payload that does
C6_Witness ==
    \/ /\ IsDeserialize
       /\ call.out.kind = "protocol_error"
       /\ call.out.code = "missing_field"
    \/ /\ IsProcess
       /\ call.out.kind = "command_error"
       /\ call.out.code = "missing_field"

\* C7 as stated: an empty claimed sender raises missing_http_header before any
\* ledger query, and every failure to resolve the sender's key, a failure of the
\* ledger query port included, is protocol error invalid_http_header
C7_AllResolutionFailuresWrapped ==
    IsDeserialize =>
        IF call.request_sender_address.kind = "empty"
          THEN call.out = protocol_error("missing_http_header", "", <<>>)
        ELSE IF ~SenderResolves \/ call.fail_at = 1
          THEN call.out.kind = "protocol_error" /\ call.out.code = "invalid_http_header"
        ELSE TRUE

\* C7 amended: the ValueError failures (undecodable address, account not found,
\* missing or invalid compliance key) are protocol error invalid_http_header; a
\* transport failure of the ledger query port propagates unwrapped
C7_ValueErrorsWrapped ==
    IsDeserialize =>
        IF call.request_sender_address.kind = "empty"
          THEN call.out = protocol_error("missing_http_header", "", <<>>)
        ELSE IF ~decode_account(call.request_sender_address).ok
          THEN call.out = protocol_error("invalid_http_header", "", <<>>)
        ELSE IF call.fail_at = 1
          THEN call.out.kind = "NetworkError"
        ELSE IF ~SenderResolves
          THEN call.out.kind = "protocol_error" /\ call.out.code = "invalid_http_header"
        ELSE call.out.kind \notin {"ValueError", "AccountNotFoundError", "NetworkError"}

\* the claimed sender decodes but has no account on the ledger
C7_Witness ==
    /\ IsDeserialize
    /\ call.request_sender_address.kind = "id"
    /\ ~accounts[call.request_sender_address.addr].exists
    /\ call.fail_at = 0
    /\ call.out.code = "invalid_http_header"

\* C8: a request is returned only from an envelope whose signature verifies
\* under the key the ledger holds for the claimed sender; an envelope signed by
\* another key or altered after signing is rejected with invalid_jws_signature;
\* an envelope signed with the matching key yields the original request
C8_EnvelopeSignature ==
    IsDeserialize =>
        LET e == call.request_bytes IN
        /\ call.out.kind = "return"
              => /\ SenderResolves
                 /\ e.wellformed
                 /\ verify(SenderKey, e.sig, e.payload)
                 /\ call.out.value = e.payload.object
        /\ (SenderResolves /\ call.fail_at # 1 /\ call.request_sender_address.kind = "id")
              => /\ (e.wellformed /\ ~verify(SenderKey, e.sig, e.payload))
                    => call.out = protocol_error("invalid_jws_signature", "",
                            <<Read("get_base_url_and_compliance_key",
                                   call.request_sender_address.addr),
                              Event("verify_envelope", 0, SenderKey, e.payload)>>)
                 /\ \A cid \in {"c1", "c2"} :
                        e = jws_serialize(Object(PingRequest(cid)), SenderKey)
                            => call.out.kind = "return" /\ call.out.value = PingRequest(cid)

\* a request signed with the sender's key and altered afterwards
C8_Witness ==
    /\ IsDeserialize
    /\ SenderResolves
    /\ call.request_bytes.wellformed
    /\ call.request_bytes.sig.key = SenderKey
    /\ call.request_bytes.sig.over = Object(PingRequest("c1"))
    /\ call.request_bytes.payload = Object(PingRequest("c2"))
    /\ call.out.code = "invalid_jws_signature"

\* C9: for an rsend command the sender's public key is read from the ledger again
\* and the recipient signature is verified under it over the travel-rule
\* message; an absent, non-hex or non-verifying signature raises
\* invalid_recipient_signature at command.payment.recipient_signature, and the
\* command is returned only if the signature verifies
C9_RsendSignatureVerified ==
    (/\ CommandCreated
     /\ ThePayment.sender.status = "needs_kyc_data"
     /\ ThePayment.receiver.status = "ready_for_settlement")
    => LET log == call.out.log
           reads == LedgerReads(log)
           sig == ThePayment.recipient_signature
           msg == travel_rule_metadata_signature_message(ThePayment)
       IN /\ Len(reads) > 0
          /\ reads[Len(reads)] = Read("get_base_url_and_compliance_key",
                                      call.request_sender_address.addr)
          /\ IF call.out.kind = "NetworkError" THEN call.fail_at = Len(reads)
             ELSE IF ~SenderResolves
               THEN call.out.kind = "protocol_error" /\ call.out.code = "invalid_http_header"
             ELSE IF ~sig.present \/ ~sig.hex \/ ~verify(SenderKey, sig, msg)
               THEN /\ call.out.kind = "command_error"
                    /\ call.out.code = "invalid_recipient_signature"
                    /\ call.out.field = "command.payment.recipient_signature"
             ELSE /\ call.out.kind = "return"
                  /\ call.out.value.payment = ThePayment
                  /\ log[Len(log)] = Event("verify_recipient_signature", 0, SenderKey, msg)

\* the receiver's VASP sends rsend with a signature made by its compliance key
C9_Witness ==
    /\ CommandCreated
    /\ ThePayment.sender.address = my_compliance_key_account_id
    /\ ThePayment.sender.status = "needs_kyc_data"
    /\ ThePayment.receiver.status = "ready_for_settlement"
    /\ call.request_sender_address = ThePayment.receiver.address
    /\ call.request_sender_address.addr # my_compliance_key_account_address
    /\ ThePayment.recipient_signature.present
    /\ call.out.kind = "return"
    /\ HasEvent(call.out.log, "verify_recipient_signature")


IsCreate == call.op = "create_inbound_payment_command"

\* C11: for a payment whose two addresses decode, create_inbound_payment_command
\* raises command error unknown_address iff neither address resolves to the
\* local party; otherwise it returns a PaymentCommand with inbound = true, the
\* cid it was given, the payment unchanged and my_actor_address the sender's
\* address whenever the sender resolves, else the receiver's; a ledger read that
\* fails ends the call with that failure
C11_LocalActorOrUnknownAddress ==
    (/\ IsCreate
     /\ decode_account(call.payment.sender.address).ok
     /\ decode_account(call.payment.receiver.address).ok)
    => LET s == call.payment.sender.address
           r == call.payment.receiver.address
           direct(a) == a.addr = my_compliance_key_account_address
       IN IF ~direct(s) /\ call.fail_at = 1
            THEN call.out.kind = "NetworkError"
          ELSE IF OwnedByLocal(s.addr)
            THEN /\ call.out.kind = "return"
                 /\ call.out.value = PaymentCommand(call.cid, s, call.payment, TRUE)
          ELSE IF ~direct(r) /\ call.fail_at = 2
            THEN call.out.kind = "NetworkError"
          ELSE IF OwnedByLocal(r.addr)
            THEN /\ call.out.kind = "return"
                 /\ call.out.value = PaymentCommand(call.cid, r, call.payment, TRUE)
                 /\ ResolvesLocal(call.out.value.my_actor_address)
          ELSE /\ call.out.kind = "command_error"
               /\ call.out.code = "unknown_address"

\* both actors resolve to the local party, the sender through its ledger
\* record, and the command carries the sender's address and the second cid
C11_Witness ==
    /\ IsCreate
    /\ call.cid = "c2"
    /\ call.payment.sender.address.kind = "id"
    /\ call.payment.receiver.address.kind = "id"
    /\ call.payment.sender.address.addr # my_compliance_key_account_address
    /\ call.payment.receiver.address # call.payment.sender.address
    /\ OwnedByLocal(call.payment.sender.address.addr)
    /\ OwnedByLocal(call.payment.receiver.address.addr)
    /\ call.out.kind = "return"
    /\ call.out.value.my_actor_address = call.payment.sender.address
    /\ call.out.value.cid = "c2"


\* the call reached the evaluation of the dual attestation limit of an initial
\* command and the ledger answered get_currencies
CurrencyChecked ==
    /\ CommandCreated
    /\ ThePayment.sender.status = "needs_kyc_data"
    /\ ThePayment.receiver.status = "none"
    /\ HasEvent(call.out.log, "get_currencies")
    /\ ~(call.out.kind = "NetworkError"
           /\ call.out.log[Len(call.out.log)].event = "get_currencies")

\* C12: in the evaluation of an initial command a code the ledger does not
\* list is rejected with invalid_field_value, whether or not the configured
\* list holds it, and a listed code outside the configured list with
\* unsupported_currency, both at command.payment.action.currency and with
\* get_currencies as the last ledger read; without a configured list every
\* listed code goes on to the get_metadata read
C12_CurrencyCodeValidation ==
    CurrencyChecked =>
        LET code == ThePayment.action.currency
            log == call.out.log
            rejected(error_code) ==
                /\ call.out.kind = "command_error"
                /\ call.out.code = error_code
                /\ call.out.field = "command.payment.action.currency"
                /\ log[Len(log)] = Read("get_currencies", 0)
                /\ ~HasEvent(log, "get_metadata")
        IN IF ~LedgerKnown(code) THEN rejected("invalid_field_value")
           ELSE IF supported_currency_codes.configured
                   /\ code \notin supported_currency_codes.codes
             THEN rejected("unsupported_currency")
           ELSE /\ HasEvent(log, "get_metadata")
                /\ call.out.kind = "command_error" => call.out.code = "no_kyc_needed"

\* a code that neither the ledger nor the configured list holds
C12_Witness ==
    /\ CurrencyChecked
    /\ supported_currency_codes.configured
    /\ ThePayment.action.currency \notin supported_currency_codes.codes
    /\ ~LedgerKnown(ThePayment.action.currency)
    /\ call.out.code = "invalid_field_value"


\* the ledger as the answers of a sequence of reads tell it
RECURSIVE LedgerOf(_, _)
LedgerOf(seen, view) ==
    IF seen = <<>> THEN view
    ELSE LET r == Head(seen)
             a == r.read.on
             next == CASE r.read.event = "get_account" ->
                            [view EXCEPT !.accounts[a] = r.account]
                       [] r.read.event = "get_base_url_and_compliance_key" ->
                            [view EXCEPT !.accounts[a] = r.account,
                                         !.compliance_keys[a] = r.key]
                       [] r.read.event = "get_currencies" ->
                            [view EXCEPT !.currencies = r.infos]
                       [] r.read.event = "get_metadata" ->
                            [view EXCEPT !.dual_attestation_limit = r.limit]
         IN LedgerOf(Tail(seen), next)

\* the outcome of a finished invocation is the outcome of the operation run
\* alone, without suspension, against the answers that the invocation was given
OutcomeAsAlone ==
    \A i \in Flows :
        flows[i].pc = "done" =>
            flows[i].out = Run(flows[i], LedgerOf(flows[i].seen, EmptyView), 0)

\* the flow finished processing an initial payment command
EvaluatedInitial(f) ==
    /\ f.pc = "done"
    /\ f.op = "process_inbound_payment_command_request"
    /\ f.args.request.command.object.payment.receiver.status = "none"

\* every evaluation of the dual attestation limit read the currencies and the
\* limit from the ledger during the call, and decided by what it was answered
EvaluatedFromLedger ==
    \A i \in Flows :
        EvaluatedInitial(flows[i]) =>
            LET f == flows[i]
                payment == f.args.request.command.object.payment
                n == Len(f.seen)
            IN /\ n >= 2
               /\ f.seen[n - 1].read = Read("get_currencies", 0)
               /\ f.seen[n].read = Read("get_metadata", 0)
               /\ LET infos == f.seen[n - 1].infos
                      k == CHOOSE k \in 1..Len(infos) :
                               infos[k].code = payment.action.currency
                      under == Ceil(infos[k].to_xdx_exchange_rate * payment.action.amount,
                                    RateDen) < f.seen[n].limit
                  IN IF under THEN f.out.kind = "command_error" /\ f.out.code = "no_kyc_needed"
                     ELSE f.out.kind = "return"

\* no step changes the configuration of the engine, and a step of an
\* invocation changes nothing of the ledger
EngineUntouched ==
    /\ client' = client
    /\ (flows' # flows \/ call' # call)
          => UNCHANGED <<accounts, compliance_keys, currencies, dual_attestation_limit>>

Ledger ==
    [accounts |-> accounts, compliance_keys |-> compliance_keys,
     currencies |-> currencies, dual_attestation_limit |-> dual_attestation_limit]

====
